---------------------------- MODULE Spec2Model ----------------------------
(***************************************************************************)
(* TessChess: the bitboard chess engine of src/Position.py, src/Board.py,  *)
(* src/Attacks.py and src/BitboardHelpers.py.                              *)
(*                                                                         *)
(* A bitboard (numpy uint64) is modelled as the set of its set bits, a     *)
(* subset of 0..63.  |, &, ^ and ~ are union, intersection, symmetric      *)
(* difference and complement in 0..63; a shift drops the bits that leave   *)
(* the 64-bit word, and 1 << n for n outside 0..63 (numpy wraps a negative *)
(* index to a huge shift count) is the empty word.                         *)
(***************************************************************************)
EXTENDS Integers, FiniteSets, Sequences, TLC

(***************************************************************************)
(* Constants.py (not among the sources): square numbering, files, ranks,   *)
(* colours and piece kinds.                                                *)
(***************************************************************************)
BOARD_SQUARES == 64
Squares == 0 .. (BOARD_SQUARES - 1)
None == -1

WHITE == 0
BLACK == 1
Colours == {WHITE, BLACK}

PieceOrder == << "wP", "wR", "wN", "wB", "wQ", "wK",
                 "bP", "bR", "bN", "bB", "bQ", "bK" >>
Pieces == {PieceOrder[i] : i \in 1..12}
white_pieces_kinds == {"wP", "wR", "wN", "wB", "wQ", "wK"}
black_pieces_kinds == {"bP", "bR", "bN", "bB", "bQ", "bK"}

File ==
    [hexA |-> {s \in Squares : s % 8 = 0}, hexB |-> {s \in Squares : s % 8 = 1},
     hexG |-> {s \in Squares : s % 8 = 6}, hexH |-> {s \in Squares : s % 8 = 7}]

Rank ==
    [x1 |-> {s \in Squares : s \div 8 = 0}, x2 |-> {s \in Squares : s \div 8 = 1},
     x4 |-> {s \in Squares : s \div 8 = 3}, x5 |-> {s \in Squares : s \div 8 = 4},
     x7 |-> {s \in Squares : s \div 8 = 6}, x8 |-> {s \in Squares : s \div 8 = 7}]

Square ==
    [A1 |-> 0, C1 |-> 2, D1 |-> 3, E1 |-> 4, F1 |-> 5, G1 |-> 6, H1 |-> 7,
     A8 |-> 56, C8 |-> 58, D8 |-> 59, E8 |-> 60, F8 |-> 61, G8 |-> 62, H8 |-> 63]

(***************************************************************************)
(* Move.colour: the colour a piece kind implies.                           *)
(***************************************************************************)
colour(piece) == IF piece \in white_pieces_kinds THEN WHITE ELSE BLACK

Not(c) == 1 - c

(***************************************************************************)
(* BitboardHelpers.py                                                      *)
(***************************************************************************)
make_uint == {}

set_bit(bitboard, bit) == bitboard \cup ({bit} \cap Squares)

clear_bit(bitboard, bit) == bitboard \ {bit}

Xor(a, b) == (a \ b) \cup (b \ a)

Compl(a) == Squares \ a

ShiftLeft(bitboard, n) == {s + n : s \in bitboard} \cap Squares

ShiftRight(bitboard, n) == {s - n : s \in bitboard} \cap Squares

Min(S) == CHOOSE x \in S : \A y \in S : x <= y

Max(S) == CHOOSE x \in S : \A y \in S : x >= y

\* least significant set bit; the callers guard the empty word
forward_bitscan(bitboard) == Min(bitboard)

\* bitboard |= bitboard >> n
Smear(bitboard, n) == bitboard \cup ShiftRight(bitboard, n)

\* bitboard += 1 on a 64-bit word: the carry runs through the low set bits,
\* and the carry out of bit 63 is lost, so the word of all ones becomes zero
AddOne(bitboard) ==
    IF bitboard = Squares THEN {}
    ELSE {Min(Squares \ bitboard)} \cup {s \in bitboard : s > Min(Squares \ bitboard)}

\* the outcome of a scan that raises instead of returning an index
ScanRaises == -2

\* int(math.log2(word)): the exponent of the top bit; math.log2 raises on zero
log2(word) == IF word = {} THEN ScanRaises ELSE Max(word)

\* the empty word raises; otherwise the word is smeared below its top bit,
\* incremented, halved, and the logarithm taken
backward_bitscan(bitboard) ==
    IF bitboard = {} THEN ScanRaises
    ELSE log2(ShiftRight(AddOne(Smear(Smear(Smear(Smear(Smear(Smear(
             bitboard, 1), 2), 4), 8), 16), 32)), 1))

(***************************************************************************)
(* Attacks.py: the eight rays on an empty board, as the code computes them *)
(* (range bounds and missing wrap masks included).                         *)
(***************************************************************************)
south_ray(from_square) == {from_square - 8 * k : k \in 1..7} \cap Squares

north_ray(from_square) == {from_square + 8 * k : k \in 1..7} \cap Squares

\* offsets range(0, -(from % 8) - 1, -1)
west_ray(from_square) == {from_square - k : k \in 1 .. (from_square % 8)}

\* offsets range(0, from % 8, 1)
east_ray(from_square) ==
    {from_square + k : k \in 1 .. ((from_square % 8) - 1)} \cap Squares

\* range(from, 0, -7)
southeast_ray(from_square) ==
    {s \in Squares : s < from_square /\ s > 0 /\ (from_square - s) % 7 = 0}

\* range(from, 0, -9)
southwest_ray(from_square) ==
    {s \in Squares : s < from_square /\ s > 0 /\ (from_square - s) % 9 = 0}

\* range(from, 63, 7)
northwest_ray(from_square) ==
    {s \in Squares : s > from_square /\ s < 63 /\ (s - from_square) % 7 = 0}

\* range(from, 64, 9)
northeast_ray(from_square) ==
    {s \in Squares : s > from_square /\ (s - from_square) % 9 = 0}

file_attack(from_square) ==
    clear_bit(north_ray(from_square) \cup south_ray(from_square), from_square)

rank_attack(from_square) ==
    clear_bit(east_ray(from_square) \cup west_ray(from_square), from_square)

diagonal_attack(from_square) ==
    clear_bit(northeast_ray(from_square) \cup northwest_ray(from_square)
              \cup southeast_ray(from_square) \cup southwest_ray(from_square),
              from_square)

\* generate_knight_attack_bitboard without the two file masks
generate_knight_attack_bitboard_unmasked(from_square) ==
    {from_square + i : i \in {6, 10, 15, 17, -6, -10, -15, -17}} \cap Squares

generate_knight_attack_bitboard(from_square) ==
    LET hops == {from_square + i : i \in {6, 10, 15, 17, -6, -10, -15, -17}}
                   \cap Squares
        m1 == IF from_square \in (File.hexB \cup File.hexA)
              THEN hops \ (File.hexG \cup File.hexH) ELSE hops
    IN  IF from_square \in (File.hexG \cup File.hexH)
        THEN m1 \ (File.hexA \cup File.hexB) ELSE m1

generate_rook_attack_bitboard(from_square) ==
    file_attack(from_square) \cup rank_attack(from_square)

generate_bishop_attack_bitboard(from_square) == diagonal_attack(from_square)

generate_queen_attack_bitboard(from_square) ==
    diagonal_attack(from_square) \cup file_attack(from_square)
        \cup rank_attack(from_square)

\* generate_king_attack_bitboard without the two file masks
generate_king_attack_bitboard_unmasked(from_square) ==
    {from_square + i : i \in {-8, 8, -7, 1, 9, -9, -1, 7}} \cap Squares

generate_king_attack_bitboard(from_square) ==
    ({from_square - 8, from_square + 8} \cap Squares)
    \cup (({from_square - 7, from_square + 1, from_square + 9} \cap Squares)
            \ File.hexA)
    \cup (({from_square - 9, from_square - 1, from_square + 7} \cap Squares)
            \ File.hexH)

generate_white_pawn_attack_bitboard(from_square) ==
    (({from_square + 9} \cap Squares) \ File.hexA)
    \cup (({from_square + 7} \cap Squares) \ File.hexH)

generate_black_pawn_attack_bitboard(from_square) ==
    (({from_square - 9} \cap Squares) \ File.hexA)
    \cup (({from_square - 7} \cap Squares) \ File.hexH)

generate_white_pawn_move_bitboard(from_square) ==
    ({from_square + 8} \cap Squares)
    \cup (IF from_square \in Rank.x2 THEN {from_square + 16} \cap Squares
          ELSE {})

generate_black_pawn_move_bitboard(from_square) ==
    ({from_square - 8} \cap Squares)
    \cup (IF from_square \in Rank.x7 THEN {from_square - 16} \cap Squares
          ELSE {})

(***************************************************************************)
(* Board.__init__: the static attack tables, built once.                   *)
(***************************************************************************)
knight_attacks == [s \in Squares |-> generate_knight_attack_bitboard(s)]
rook_attacks == [s \in Squares |-> generate_rook_attack_bitboard(s)]
bishop_attacks == [s \in Squares |-> generate_bishop_attack_bitboard(s)]
queen_attacks == [s \in Squares |-> generate_queen_attack_bitboard(s)]
king_attacks == [s \in Squares |-> generate_king_attack_bitboard(s)]
white_pawn_attack == [s \in Squares |-> generate_white_pawn_attack_bitboard(s)]
white_pawn_move == [s \in Squares |-> generate_white_pawn_move_bitboard(s)]
black_pawn_attack == [s \in Squares |-> generate_black_pawn_attack_bitboard(s)]
black_pawn_move == [s \in Squares |-> generate_black_pawn_move_bitboard(s)]


(***************************************************************************)
(* Board.py: aggregate views of the twelve occupancy bitboards.            *)
(***************************************************************************)
white_pieces(board) ==
    board["wK"] \cup board["wQ"] \cup board["wR"] \cup board["wN"]
        \cup board["wB"] \cup board["wP"]

black_pieces(board) ==
    board["bK"] \cup board["bQ"] \cup board["bR"] \cup board["bN"]
        \cup board["bB"] \cup board["bP"]

occupied_squares(board) == black_pieces(board) \cup white_pieces(board)

empty_squares(board) == Compl(occupied_squares(board))

board_white_pawn_attacks(board) ==
    (ShiftLeft(board["wP"], 9) \ File.hexA) \cup (ShiftLeft(board["wP"], 7) \ File.hexH)

board_black_pawn_attacks(board) ==
    (ShiftRight(board["bP"], 7) \ File.hexA) \cup (ShiftRight(board["bP"], 9) \ File.hexH)

\* Position.occupied_squares_by_colour
occupied_squares_by_colour(board, c) ==
    IF c = WHITE THEN white_pieces(board) ELSE black_pieces(board)

\* update_position_bitboards without the reset of a changed kind's bitboard
\* before its squares are set
update_position_bitboards_no_reset(board, piece_map, change_map) ==
    [k \in Pieces |-> IF k \in change_map THEN board[k] \cup piece_map[k]
                      ELSE board[k]]

\* update_position_bitboards rewriting every kind from the piece map,
\* whether or not the change map names it
update_position_bitboards_all_kinds(board, piece_map, change_map) ==
    [k \in Pieces |-> piece_map[k]]

\* rewrites exactly the bitboards of the kinds in the change map
update_position_bitboards(board, piece_map, change_map) ==
    [k \in Pieces |-> IF k \in change_map THEN piece_map[k] ELSE board[k]]

(***************************************************************************)
(* Position.py: the position is a record with the attributes of Position.  *)
(***************************************************************************)
set_initial_piece_locations ==
    [k \in Pieces |->
        CASE k = "wP" -> 8..15
          [] k = "wR" -> {0, 7}
          [] k = "wN" -> {1, 6}
          [] k = "wB" -> {2, 5}
          [] k = "wQ" -> {3}
          [] k = "wK" -> {4}
          [] k = "bP" -> 48..55
          [] k = "bR" -> {56, 63}
          [] k = "bN" -> {57, 62}
          [] k = "bB" -> {58, 61}
          [] k = "bQ" -> {59}
          [] k = "bK" -> {60}]

\* Board.init_pieces sets the same squares as set_initial_piece_locations
init_pieces ==
    [k \in Pieces |->
        CASE k = "wP" -> 8..15
          [] k = "wR" -> {0, 7}
          [] k = "wN" -> {1, 6}
          [] k = "wB" -> {2, 5}
          [] k = "wQ" -> {3}
          [] k = "wK" -> {4}
          [] k = "bP" -> 48..55
          [] k = "bR" -> {56, 63}
          [] k = "bN" -> {57, 62}
          [] k = "bB" -> {58, 61}
          [] k = "bQ" -> {59}
          [] k = "bK" -> {60}]

InitialPosition ==
    [ board |-> init_pieces,
      piece_map |-> set_initial_piece_locations,
      colour_to_move |-> WHITE,
      castle_rights |-> [c \in Colours |-> << 1, 1 >>],
      halfmove_clock |-> 0,
      halfmove |-> 2,
      en_passant_target |-> None,
      en_passant_side |-> WHITE,
      is_en_passant_capture |-> FALSE,
      king_in_check |-> [c \in Colours |-> 0],
      white_pawn_moves |-> make_uint,
      white_pawn_attacks |-> make_uint,
      white_rook_attacks |-> make_uint,
      white_knight_attacks |-> make_uint,
      white_bishop_attacks |-> make_uint,
      white_queen_attacks |-> make_uint,
      white_king_attacks |-> make_uint,
      black_pawn_moves |-> make_uint,
      black_pawn_attacks |-> make_uint,
      black_rook_attacks |-> make_uint,
      black_knight_attacks |-> make_uint,
      black_bishop_attacks |-> make_uint,
      black_queen_attacks |-> make_uint,
      black_king_attacks |-> make_uint ]

black_attacked_squares(p) ==
    p.black_rook_attacks \cup p.black_knight_attacks \cup p.black_bishop_attacks
        \cup p.black_queen_attacks \cup p.black_king_attacks
        \cup p.black_pawn_attacks

white_attacked_squares(p) ==
    p.white_rook_attacks \cup p.white_knight_attacks \cup p.white_bishop_attacks
        \cup p.white_queen_attacks \cup p.white_king_attacks
        \cup p.white_pawn_attacks

attacked_squares(p, c) ==
    IF c = WHITE THEN white_attacked_squares(p) ELSE black_attacked_squares(p)

\* PositionState.__init__ followed by reset_state_to: every attribute is set
\* from the memento, and the memento holds the pawn attack bitboard of a
\* colour under the name of each of that colour's other attack bitboards
reset_state_to(memento) ==
    [ memento EXCEPT
        !.white_knight_attacks = memento.white_pawn_attacks,
        !.white_rook_attacks = memento.white_pawn_attacks,
        !.white_bishop_attacks = memento.white_pawn_attacks,
        !.white_queen_attacks = memento.white_pawn_attacks,
        !.white_king_attacks = memento.white_pawn_attacks,
        !.black_knight_attacks = memento.black_pawn_attacks,
        !.black_rook_attacks = memento.black_pawn_attacks,
        !.black_bishop_attacks = memento.black_pawn_attacks,
        !.black_queen_attacks = memento.black_pawn_attacks,
        !.black_king_attacks = memento.black_pawn_attacks ]

(***************************************************************************)
(* Move legality by piece type.                                            *)
(***************************************************************************)
is_capture(p, piece, to_square) ==
    IF colour(piece) = WHITE THEN to_square \in black_pieces(p.board)
    ELSE to_square \in white_pieces(p.board)

is_promotion(piece, to_square) ==
    \/ colour(piece) = WHITE /\ to_square \in Rank.x8
    \/ colour(piece) = BLACK /\ to_square \in Rank.x1

is_castling(from_square, to_square) ==
    \/ from_square = Square.E1 /\ to_square \in {Square.G1, Square.C1}
    \/ from_square = Square.E8 /\ to_square \in {Square.G8, Square.C8}

\* None when the move is no two-square advance from the home rank
get_en_passant_target(piece, from_square, to_square) ==
    IF piece \notin {"wP", "bP"} THEN None
    ELSE IF colour(piece) = WHITE /\ to_square \in Rank.x4 /\ from_square \in Rank.x2
         THEN to_square - 8
    ELSE IF colour(piece) = BLACK /\ to_square \in Rank.x5 /\ from_square \in Rank.x7
         THEN to_square + 8
    ELSE None

is_not_pawn_move(piece, from_square, to_square) ==
    IF colour(piece) = WHITE
    THEN to_square \notin (white_pawn_move[from_square]
                            \cup white_pawn_attack[from_square])
    ELSE to_square \notin (black_pawn_move[from_square]
                            \cup black_pawn_attack[from_square])

is_not_knight_attack(from_square, to_square) ==
    to_square \notin knight_attacks[from_square]

is_not_rook_attack(from_square, to_square) ==
    to_square \notin rook_attacks[from_square]

is_not_bishop_attack(from_square, to_square) ==
    to_square \notin bishop_attacks[from_square]

is_not_queen_attack(from_square, to_square) ==
    to_square \notin queen_attacks[from_square]

\* is_not_king_attack letting the two-square castling steps through
is_not_king_attack_castling(from_square, to_square) ==
    /\ to_square \notin king_attacks[from_square]
    /\ ~ is_castling(from_square, to_square)

is_not_king_attack(from_square, to_square) ==
    to_square \notin king_attacks[from_square]

\* the en-passant bitboard of is_legal_pawn_move ("if self.en_passant_target")
en_passant_bitboard(p) ==
    IF p.en_passant_target # None /\ p.en_passant_target # 0
    THEN {p.en_passant_target} ELSE make_uint

is_legal_pawn_move(p, piece, from_square, to_square) ==
    IF piece = "wP"
    THEN /\ from_square \in p.board["wP"]
         /\ ~ is_not_pawn_move(piece, from_square, to_square)
         /\ ~ (from_square = to_square - 8
                 /\ to_square \in occupied_squares(p.board))
         /\ ~ (/\ (from_square = to_square - 9 \/ from_square = to_square - 7)
               /\ to_square \in p.white_pawn_attacks
               /\ to_square \notin (black_pieces(p.board)
                                      \cup en_passant_bitboard(p)))
    ELSE IF piece = "bP"
    THEN /\ from_square \in p.board["bP"]
         /\ ~ is_not_pawn_move(piece, from_square, to_square)
         /\ ~ (from_square = to_square + 8
                 /\ to_square \in occupied_squares(p.board))
         /\ ~ (/\ (from_square = to_square + 9 \/ from_square = to_square + 7)
               /\ to_square \in p.black_pawn_attacks
               /\ to_square \notin (white_pieces(p.board)
                                      \cup en_passant_bitboard(p)))
    ELSE FALSE

\* is_legal_knight_move without the test that a knight stands on from_square
is_legal_knight_move_any_origin(p, piece, from_square, to_square) ==
    /\ piece \in {"wN", "bN"}
    /\ ~ is_not_knight_attack(from_square, to_square)

is_legal_knight_move(p, piece, from_square, to_square) ==
    /\ piece \in {"wN", "bN"}
    /\ from_square \in p.board[piece]
    /\ ~ is_not_knight_attack(from_square, to_square)

is_legal_rook_move(p, piece, from_square, to_square) ==
    /\ piece \in {"wR", "bR"}
    /\ from_square \in p.board[piece]
    /\ ~ is_not_rook_attack(from_square, to_square)

is_legal_bishop_move(p, piece, from_square, to_square) ==
    /\ piece \in {"wB", "bB"}
    /\ from_square \in p.board[piece]
    /\ ~ is_not_bishop_attack(from_square, to_square)

is_legal_queen_move(p, piece, from_square, to_square) ==
    /\ piece \in {"wQ", "bQ"}
    /\ from_square \in p.board[piece]
    /\ ~ is_not_queen_attack(from_square, to_square)

is_legal_king_move(p, piece, from_square, to_square) ==
    /\ piece \in {"wK", "bK"}
    /\ from_square \in p.board[piece]
    /\ ~ is_not_king_attack(from_square, to_square)

\* the verdict of is_legal_move
is_legal_move(p, piece, from_square, to_square) ==
    CASE piece \in {"wP", "bP"} -> is_legal_pawn_move(p, piece, from_square, to_square)
      [] piece \in {"wN", "bN"} -> is_legal_knight_move(p, piece, from_square, to_square)
      [] piece \in {"wR", "bR"} -> is_legal_rook_move(p, piece, from_square, to_square)
      [] piece \in {"wB", "bB"} -> is_legal_bishop_move(p, piece, from_square, to_square)
      [] piece \in {"wQ", "bQ"} -> is_legal_queen_move(p, piece, from_square, to_square)
      [] piece \in {"wK", "bK"} -> is_legal_king_move(p, piece, from_square, to_square)

\* the flags is_legal_move sets on the move when it returns True
move_is_promotion(piece, to_square) ==
    piece \in {"wP", "bP"} /\ is_promotion(piece, to_square)

move_is_castling(piece, from_square, to_square) ==
    piece \in {"wK", "bK"} /\ is_castling(from_square, to_square)

\* is_legal_move_effect flagging an en-passant capture whenever the move set a
\* target, not only when the move lands on the target
is_legal_move_effect_flag_on_target(p, piece, from_square, to_square) ==
    IF piece \in {"wP", "bP"} /\ ~ is_promotion(piece, to_square)
    THEN LET target == get_en_passant_target(piece, from_square, to_square)
         IN  IF target # None /\ target # 0
             THEN [p EXCEPT !.en_passant_side = colour(piece),
                            !.en_passant_target = target,
                            !.is_en_passant_capture = TRUE]
             ELSE p
    ELSE p

\* the position is_legal_move leaves behind when it returns True: a pawn move
\* that is no promotion may set the en-passant target and side and the
\* en-passant-capture flag
is_legal_move_effect(p, piece, from_square, to_square) ==
    IF piece \in {"wP", "bP"} /\ ~ is_promotion(piece, to_square)
    THEN LET target == get_en_passant_target(piece, from_square, to_square)
             \* "if en_passant_target:" is false for None and for square 0
             p1 == IF target # None /\ target # 0
                   THEN [p EXCEPT !.en_passant_side = colour(piece),
                                  !.en_passant_target = target]
                   ELSE p
         IN  IF to_square = p1.en_passant_target
             THEN [p1 EXCEPT !.is_en_passant_capture = TRUE]
             ELSE p1
    ELSE p


(***************************************************************************)
(* Recomputation of the dynamic attack bitboards.                          *)
(***************************************************************************)
\* the legal_moves of update_legal_rook_moves: the east ray is cut with the
\* north ray of its first blocker and the west ray with the south ray
rook_legal_moves(board, from_square, c) ==
    LET occupied == occupied_squares(board)
        north0 == north_ray(from_square)
        north == IF occupied \cap north0 # {}
                 THEN Xor(north0, north_ray(forward_bitscan(occupied \cap north0)))
                 ELSE north0
        south0 == south_ray(from_square)
        south == IF occupied \cap south0 # {}
                 THEN Xor(south0, south_ray(backward_bitscan(occupied \cap south0)))
                 ELSE south0
        east0 == east_ray(from_square)
        east == IF occupied \cap east0 # {}
                THEN Xor(east0, north_ray(forward_bitscan(occupied \cap east0)))
                ELSE east0
        west0 == west_ray(from_square)
        west == IF occupied \cap west0 # {}
                THEN Xor(west0, south_ray(backward_bitscan(occupied \cap west0)))
                ELSE west0
    IN  (north \cup south \cup east \cup west)
            \ occupied_squares_by_colour(board, c)

bishop_legal_moves(board, from_square, c) ==
    LET occupied == occupied_squares(board)
        northeast0 == northeast_ray(from_square)
        northeast == IF northeast0 \cap occupied # {}
                     THEN Xor(northeast0,
                              northeast_ray(forward_bitscan(northeast0 \cap occupied)))
                     ELSE northeast0
        northwest0 == northwest_ray(from_square)
        northwest == IF northwest0 \cap occupied # {}
                     THEN Xor(northwest0,
                              northwest_ray(forward_bitscan(northwest0 \cap occupied)))
                     ELSE northwest0
        southeast0 == southeast_ray(from_square)
        southeast == IF southeast0 \cap occupied # {}
                     THEN Xor(southeast0,
                              southeast_ray(backward_bitscan(southeast0 \cap occupied)))
                     ELSE southeast0
        southwest0 == southwest_ray(from_square)
        southwest == IF southwest0 \cap occupied # {}
                     THEN Xor(southwest0,
                              southwest_ray(backward_bitscan(southwest0 \cap occupied)))
                     ELSE southwest0
    IN  (northeast \cup northwest \cup southeast \cup southwest)
            \ occupied_squares_by_colour(board, c)

\* update_attack_scans without the tests `if intersection:` before the scans
update_attack_scans_unguarded(board, kind, from_square) ==
    {occupied_squares(board) \cap ray :
        ray \in (IF kind \in {"wR", "bR", "wQ", "bQ"}
                 THEN {north_ray(from_square), south_ray(from_square),
                       east_ray(from_square), west_ray(from_square)}
                 ELSE {})
                  \cup (IF kind \in {"wB", "bB", "wQ", "bQ"}
                        THEN {northeast_ray(from_square), northwest_ray(from_square),
                              southeast_ray(from_square), southwest_ray(from_square)}
                        ELSE {})}

\* the bitboards handed to forward_bitscan and backward_bitscan when the
\* attacks of one piece are recomputed: of each ray of the piece, the
\* intersection with the occupancy, if it is not zero
update_attack_scans(board, kind, from_square) ==
    {intersection \in
        {occupied_squares(board) \cap ray :
            ray \in (IF kind \in {"wR", "bR", "wQ", "bQ"}
                     THEN {north_ray(from_square), south_ray(from_square),
                           east_ray(from_square), west_ray(from_square)}
                     ELSE {})
                      \cup (IF kind \in {"wB", "bB", "wQ", "bQ"}
                            THEN {northeast_ray(from_square), northwest_ray(from_square),
                                  southeast_ray(from_square), southwest_ray(from_square)}
                            ELSE {})} :
        intersection # {}}

update_legal_rook_moves(p, from_square, c) ==
    IF c = WHITE
    THEN [p EXCEPT !.white_rook_attacks = rook_legal_moves(p.board, from_square, c)]
    ELSE [p EXCEPT !.black_rook_attacks = rook_legal_moves(p.board, from_square, c)]

update_legal_bishop_moves(p, from_square, c) ==
    IF c = WHITE
    THEN [p EXCEPT !.white_bishop_attacks = bishop_legal_moves(p.board, from_square, c)]
    ELSE [p EXCEPT !.black_bishop_attacks = bishop_legal_moves(p.board, from_square, c)]

\* calls the bishop and the rook update, which store their results too
update_legal_queen_moves(p, from_square, c) ==
    LET p1 == update_legal_bishop_moves(p, from_square, c)
        p2 == update_legal_rook_moves(p1, from_square, c)
        legal_moves == bishop_legal_moves(p.board, from_square, c)
                         \cup rook_legal_moves(p.board, from_square, c)
    IN  IF c = WHITE THEN [p2 EXCEPT !.white_queen_attacks = legal_moves]
        ELSE [p2 EXCEPT !.black_queen_attacks = legal_moves]

update_legal_knight_moves(p, from_square, c) ==
    IF c = WHITE
    THEN [p EXCEPT !.white_knight_attacks =
                      knight_attacks[from_square] \ white_pieces(p.board)]
    ELSE [p EXCEPT !.black_knight_attacks =
                      knight_attacks[from_square] \ black_pieces(p.board)]

\* computes king_moves and can_castle into locals and stores neither
update_legal_king_moves(p, from_square, c) == p

\* both colours' pawn attacks are first set from the board, then the moving
\* colour's are replaced by the static attacks of from_square
update_legal_pawn_moves(p, from_square, c) ==
    LET p1 == [p EXCEPT !.white_pawn_attacks = board_white_pawn_attacks(p.board),
                        !.black_pawn_attacks = board_black_pawn_attacks(p.board)]
    IN  IF c = WHITE
        THEN [p1 EXCEPT !.white_pawn_attacks = white_pawn_attack[from_square],
                        !.white_pawn_moves = white_pawn_move[from_square]
                                               \cap empty_squares(p.board)]
        ELSE [p1 EXCEPT !.black_pawn_attacks = black_pawn_attack[from_square],
                        !.black_pawn_moves = black_pawn_move[from_square]
                                               \cap empty_squares(p.board)]

\* one kind of the change map: the loop over its squares resets the kind's
\* bitboard and recomputes it for every square in turn, so what remains is
\* the result for the square the set yields last (sq); an empty set leaves
\* the bitboard as it was
update_kind(p, kind, sq) ==
    IF p.piece_map[kind] = {} THEN p
    ELSE CASE kind = "wP" -> update_legal_pawn_moves(p, sq, WHITE)
           [] kind = "bP" -> update_legal_pawn_moves(p, sq, BLACK)
           [] kind = "wR" -> update_legal_rook_moves(p, sq, WHITE)
           [] kind = "bR" -> update_legal_rook_moves(p, sq, BLACK)
           [] kind = "wN" -> update_legal_knight_moves(p, sq, WHITE)
           [] kind = "bN" -> update_legal_knight_moves(p, sq, BLACK)
           [] kind = "wB" -> update_legal_bishop_moves(p, sq, WHITE)
           [] kind = "bB" -> update_legal_bishop_moves(p, sq, BLACK)
           [] kind = "wQ" -> update_legal_queen_moves(p, sq, WHITE)
           [] kind = "bQ" -> update_legal_queen_moves(p, sq, BLACK)
           [] kind = "wK" ->
                update_legal_king_moves([p EXCEPT !.white_king_attacks = make_uint],
                                        sq, WHITE)
           [] kind = "bK" ->
                update_legal_king_moves([p EXCEPT !.black_king_attacks = make_uint],
                                        sq, BLACK)

RECURSIVE update_attack_from(_, _, _, _)
update_attack_from(p, change_map, last_square, i) ==
    IF i > 12 THEN p
    ELSE LET kind == PieceOrder[i]
         IN  update_attack_from(
                 IF kind \in change_map /\ kind \in DOMAIN last_square
                 THEN update_kind(p, kind, last_square[kind]) ELSE p,
                 change_map, last_square, i + 1)

\* the kinds of the change map are visited in the order of piece_map's keys
update_attack_bitboards(p, change_map, last_square) ==
    update_attack_from(p, change_map, last_square, 1)

evaluate_king_check(p) ==
    [p EXCEPT !.king_in_check =
        [c \in Colours |->
            IF c = WHITE
            THEN IF black_attacked_squares(p) \cap p.board["wK"] # {} THEN 1 ELSE 0
            ELSE IF white_attacked_squares(p) \cap p.board["bK"] # {} THEN 1 ELSE 0]]


(***************************************************************************)
(* has_any_moves and its six probes.  A probe answers TRUE or FALSE;       *)
(* has_king_move hands the king's square set (not a square) to Move, and   *)
(* set_bit raises on it as soon as a candidate square is probed.           *)
(***************************************************************************)
has_king_move_raises(p, c) ==
    LET king_attacks_c == (IF c = WHITE THEN p.white_king_attacks
                           ELSE p.black_king_attacks)
                             \ attacked_squares(p, Not(c))
    IN  king_attacks_c # {}

has_queen_move(p, c) ==
    LET queen_attacks_c == IF c = WHITE THEN p.white_queen_attacks
                           ELSE p.black_queen_attacks
        queen_piece == IF c = WHITE THEN "wQ" ELSE "bQ"
    IN  \E from_square \in p.piece_map[queen_piece] : \E to_square \in queen_attacks_c :
            is_legal_queen_move(p, queen_piece, from_square, to_square)

has_rook_move(p, c) ==
    LET rook_attacks_c == IF c = WHITE THEN p.white_rook_attacks
                          ELSE p.black_rook_attacks
        rook_piece == IF c = WHITE THEN "wR" ELSE "bR"
    IN  \E from_square \in p.piece_map[rook_piece] : \E to_square \in rook_attacks_c :
            is_legal_rook_move(p, rook_piece, from_square, to_square)

has_knight_move(p, c) ==
    LET knight_attacks_c == IF c = WHITE THEN p.white_knight_attacks
                            ELSE p.black_knight_attacks
        knight_piece == IF c = WHITE THEN "wN" ELSE "bN"
    IN  \E from_square \in p.piece_map[knight_piece] : \E to_square \in knight_attacks_c :
            is_legal_knight_move(p, knight_piece, from_square, to_square)

has_bishop_move(p, c) ==
    LET bishop_attacks_c == IF c = WHITE THEN p.white_bishop_attacks
                            ELSE p.black_bishop_attacks
        bishop_piece == IF c = WHITE THEN "wB" ELSE "bB"
    IN  \E from_square \in p.piece_map[bishop_piece] : \E to_square \in bishop_attacks_c :
            is_legal_bishop_move(p, bishop_piece, from_square, to_square)

has_pawn_move(p, c) ==
    LET pawn_attacks == IF c = WHITE
                        THEN p.white_pawn_attacks \cup p.white_pawn_moves
                        ELSE p.black_pawn_attacks \cup p.black_pawn_moves
        pawn_piece == IF c = WHITE THEN "wP" ELSE "bP"
    IN  \E from_square \in p.piece_map[pawn_piece] : \E to_square \in pawn_attacks :
            is_legal_pawn_move(p, pawn_piece, from_square, to_square)

\* reached only when has_king_move returned False
has_any_moves(p, c) ==
    \/ has_queen_move(p, c)
    \/ has_rook_move(p, c)
    \/ has_knight_move(p, c)
    \/ has_bishop_move(p, c)
    \/ has_pawn_move(p, c)

(***************************************************************************)
(* make_move, in the order of its statements.                              *)
(***************************************************************************)
\* the kind remove_opponent_piece picks: the first kind, in the order of
\* piece_map's keys, whose set holds the square; "None" when no set does
remove_target(piece_map, square) ==
    LET idx == {i \in 1..12 : square \in piece_map[PieceOrder[i]]}
    IN  IF idx = {} THEN "None" ELSE PieceOrder[Min(idx)]

remove_opponent_piece(piece_map, square) ==
    [piece_map EXCEPT ![remove_target(piece_map, square)] = @ \ {square}]

promotion_kinds(c) ==
    IF c = WHITE THEN {"wN", "wB", "wR", "wQ"} ELSE {"bN", "bB", "bR", "bQ"}

\* promote_pawn without the removal of the pawn from its destination
promote_pawn_keep_pawn(piece_map, piece, to_square, new_piece) ==
    [piece_map EXCEPT ![new_piece] = @ \cup {to_square}]

promote_pawn(piece_map, piece, to_square, new_piece) ==
    LET pm1 == [piece_map EXCEPT ![piece] = @ \ {to_square}]
    IN  [pm1 EXCEPT ![new_piece] = @ \cup {to_square}]

rook_home(to_square) ==
    CASE to_square = Square.G1 -> Square.H1
      [] to_square = Square.C1 -> Square.A1
      [] to_square = Square.G8 -> Square.H8
      [] to_square = Square.C8 -> Square.A8

rook_castled(to_square) ==
    CASE to_square = Square.G1 -> Square.F1
      [] to_square = Square.C1 -> Square.D1
      [] to_square = Square.G8 -> Square.F8
      [] to_square = Square.C8 -> Square.D8

move_rooks_for_castling(piece_map, c, to_square) ==
    LET rook == IF c = WHITE THEN "wR" ELSE "bR"
    IN  [piece_map EXCEPT ![rook] = (@ \ {rook_home(to_square)})
                                      \cup {rook_castled(to_square)}]

\* a black king move compares the rights with [0, 0] and assigns nothing
adjust_castling_rights(castle_rights, piece, from_square) ==
    CASE piece = "wK" -> [castle_rights EXCEPT ![WHITE] = << 0, 0 >>]
      [] piece = "wR" /\ from_square = Square.H1 -> [castle_rights EXCEPT ![WHITE][1] = 0]
      [] piece = "wR" /\ from_square = Square.A1 -> [castle_rights EXCEPT ![WHITE][2] = 0]
      [] piece = "bR" /\ from_square = Square.H8 -> [castle_rights EXCEPT ![BLACK][1] = 0]
      [] piece = "bR" /\ from_square = Square.A8 -> [castle_rights EXCEPT ![BLACK][2] = 0]
      [] OTHER -> castle_rights

\* The statements of lines 178-211 in turn.  Each takes and gives
\* [raised, pos]: raised is TRUE once a statement has raised (no piece to
\* remove, or the piece is not on its from-square any more), and pos is then
\* the position at that statement.

\* lines 178-180
make_move_capture(a, to_square, captures) ==
    IF a.raised \/ ~ captures THEN a
    ELSE IF remove_target(a.pos.piece_map, to_square) = "None"
    THEN [raised |-> TRUE, pos |-> [a.pos EXCEPT !.halfmove_clock = 0]]
    ELSE [raised |-> FALSE,
          pos |-> [a.pos EXCEPT !.halfmove_clock = 0,
                                !.piece_map = remove_opponent_piece(@, to_square)]]

\* lines 182-191 without the removal of the pawn taken en passant
make_move_en_passant_no_removal(a, piece, to_square) ==
    IF a.raised THEN a
    ELSE [raised |-> FALSE,
          pos |-> [a.pos EXCEPT
                     !.is_en_passant_capture = FALSE,
                     !.halfmove_clock = IF piece \in {"wP", "bP"} THEN 0 ELSE @]]

\* lines 182-191
make_move_en_passant(a, piece, to_square) ==
    LET ep_square == IF colour(piece) = WHITE THEN to_square - 8 ELSE to_square + 8
    IN  IF a.raised THEN a
        ELSE IF a.pos.is_en_passant_capture
                  /\ remove_target(a.pos.piece_map, ep_square) = "None"
        THEN [raised |-> TRUE, pos |-> a.pos]
        ELSE [raised |-> FALSE,
              pos |-> [a.pos EXCEPT
                         !.piece_map = IF a.pos.is_en_passant_capture
                                       THEN remove_opponent_piece(@, ep_square)
                                       ELSE @,
                         !.is_en_passant_capture = FALSE,
                         !.halfmove_clock = IF piece \in {"wP", "bP"} THEN 0 ELSE @]]

\* lines 193-194
make_move_relocate(a, piece, from_square, to_square) ==
    IF a.raised THEN a
    ELSE IF from_square \notin a.pos.piece_map[piece]
    THEN [raised |-> TRUE, pos |-> a.pos]
    ELSE [raised |-> FALSE,
          pos |-> [a.pos EXCEPT !.piece_map[piece] =
                                    (@ \ {from_square}) \cup {to_square}]]

\* lines 196-197
make_move_promote(a, piece, to_square, new_piece) ==
    IF a.raised \/ ~ move_is_promotion(piece, to_square) THEN a
    ELSE [raised |-> FALSE,
          pos |-> [a.pos EXCEPT !.piece_map =
                                    promote_pawn(@, piece, to_square, new_piece)]]

\* lines 199-200
make_move_castle(a, piece, from_square, to_square) ==
    IF a.raised \/ ~ move_is_castling(piece, from_square, to_square) THEN a
    ELSE IF rook_home(to_square) \notin
              a.pos.piece_map[IF colour(piece) = WHITE THEN "wR" ELSE "bR"]
    THEN [raised |-> TRUE, pos |-> a.pos]
    ELSE [raised |-> FALSE,
          pos |-> [a.pos EXCEPT !.piece_map =
                                    move_rooks_for_castling(@, colour(piece), to_square)]]

\* lines 202-211 without the increment of the halfmove counter at line 203
make_move_clocks_no_halfmove(a, piece, from_square) ==
    IF a.raised THEN a
    ELSE [raised |-> FALSE,
          pos |-> [a.pos EXCEPT
                     !.halfmove_clock = @ + 1,
                     !.castle_rights =
                         IF @[colour(piece)][1] # 0 \/ @[colour(piece)][2] # 0
                         THEN adjust_castling_rights(@, piece, from_square)
                         ELSE @,
                     !.en_passant_target =
                         IF a.pos.en_passant_side # colour(piece) THEN None ELSE @]]

\* lines 202-211 without the clearing of the en-passant target at lines 210-211
make_move_clocks_keep_target(a, piece, from_square) ==
    IF a.raised THEN a
    ELSE [raised |-> FALSE,
          pos |-> [a.pos EXCEPT
                     !.halfmove_clock = @ + 1,
                     !.halfmove = @ + 1,
                     !.castle_rights =
                         IF @[colour(piece)][1] # 0 \/ @[colour(piece)][2] # 0
                         THEN adjust_castling_rights(@, piece, from_square)
                         ELSE @]]

\* lines 202-211
make_move_clocks(a, piece, from_square) ==
    IF a.raised THEN a
    ELSE [raised |-> FALSE,
          pos |-> [a.pos EXCEPT
                     !.halfmove_clock = @ + 1,
                     !.halfmove = @ + 1,
                     !.castle_rights =
                         IF @[colour(piece)][1] # 0 \/ @[colour(piece)][2] # 0
                         THEN adjust_castling_rights(@, piece, from_square)
                         ELSE @,
                     !.en_passant_target =
                         IF a.pos.en_passant_side # colour(piece) THEN None ELSE @]]

\* lines 178-211: the move applied to piece_map, the clocks, the castling
\* rights and the en-passant target
apply_move(p, piece, from_square, to_square, new_piece) ==
    make_move_clocks(
        make_move_castle(
            make_move_promote(
                make_move_relocate(
                    make_move_en_passant(
                        make_move_capture(
                            [raised |-> FALSE,
                             pos |-> is_legal_move_effect(p, piece, from_square,
                                                          to_square)],
                            to_square, is_capture(p, piece, to_square)),
                        piece, to_square),
                    piece, from_square, to_square),
                piece, to_square, new_piece),
            piece, from_square, to_square),
        piece, from_square)

\* line 215: the kinds whose square set differs from the snapshot's
change_map(original_piece_map, piece_map) ==
    {k \in Pieces : piece_map[k] # original_piece_map[k]}

\* lines 216-219: rewrite the bitboards and the attack bitboards of the
\* changed kinds, then set the king-in-check flags
update_after_move(pa, changed, last_square) ==
    evaluate_king_check(
        update_attack_bitboards(
            [pa EXCEPT !.board = update_position_bitboards(@, pa.piece_map, changed)],
            changed, last_square))

\* lines 221-232 without the call of reset_state_to at line 222
move_result_no_rollback(p, pd, c) ==
    IF pd.king_in_check[c] = 1
    THEN [result |-> "illegal", reason |-> "selfcheck", pos |-> pd]
    ELSE IF pd.king_in_check[Not(c)] = 1 /\ has_king_move_raises(pd, Not(c))
    THEN [result |-> "raised", reason |-> "has_king_move", pos |-> pd]
    ELSE IF pd.king_in_check[Not(c)] = 1 /\ ~ has_any_moves(pd, Not(c))
    THEN [result |-> "checkmate", reason |-> "", pos |-> pd]
    ELSE [result |-> "accepted", reason |-> "",
          pos |-> [pd EXCEPT !.colour_to_move = Not(@)]]

\* lines 221-232: the result, for the position p before the call and the
\* position pd after line 219
move_result(p, pd, c) ==
    IF pd.king_in_check[c] = 1
    THEN [result |-> "illegal", reason |-> "selfcheck", pos |-> reset_state_to(p)]
    ELSE IF pd.king_in_check[Not(c)] = 1 /\ has_king_move_raises(pd, Not(c))
    THEN [result |-> "raised", reason |-> "has_king_move", pos |-> pd]
    ELSE IF pd.king_in_check[Not(c)] = 1 /\ ~ has_any_moves(pd, Not(c))
    THEN [result |-> "checkmate", reason |-> "", pos |-> pd]
    ELSE [result |-> "accepted", reason |-> "",
          pos |-> [pd EXCEPT !.colour_to_move = Not(@)]]

\* lines 215-232
finish_move(p, pa, piece, last_square) ==
    move_result(p,
                update_after_move(pa, change_map(p.piece_map, pa.piece_map),
                                  last_square),
                colour(piece))

\* lines 178-232, once the move has passed validation
apply_and_finish(p, a, piece, last_square) ==
    IF a.raised
    THEN [result |-> "raised", reason |-> "piece_map", pos |-> a.pos]
    ELSE finish_move(p, a.pos, piece, last_square)

\* make_move without the turn check of lines 172-173
make_move_any_turn(p, piece, from_square, to_square, new_piece, last_square) ==
    IF ~ is_legal_move(p, piece, from_square, to_square)
    THEN [result |-> "illegal", reason |-> "invalid", pos |-> p]
    ELSE apply_and_finish(p,
                          apply_move(p, piece, from_square, to_square, new_piece),
                          piece, last_square)

\* make_move with the en-passant bookkeeping of is_legal_move done before
\* the verdict on the move's geometry
make_move_bookkeeping_first(p, piece, from_square, to_square, new_piece, last_square) ==
    IF p.colour_to_move # colour(piece)
    THEN [result |-> "illegal", reason |-> "turn", pos |-> p]
    ELSE IF ~ is_legal_move(p, piece, from_square, to_square)
    THEN [result |-> "illegal", reason |-> "invalid",
          pos |-> is_legal_move_effect(p, piece, from_square, to_square)]
    ELSE apply_and_finish(p,
                          apply_move(p, piece, from_square, to_square, new_piece),
                          piece, last_square)

\* make_move(move): the result and the position it leaves.  new_piece is the
\* promotion collaborator's answer; last_square gives, for each changed kind,
\* the square its set yields last when update_attack_bitboards iterates it.
make_move(p, piece, from_square, to_square, new_piece, last_square) ==
    IF p.colour_to_move # colour(piece)
    THEN [result |-> "illegal", reason |-> "turn", pos |-> p]
    ELSE IF ~ is_legal_move(p, piece, from_square, to_square)
    THEN [result |-> "illegal", reason |-> "invalid", pos |-> p]
    ELSE apply_and_finish(p,
                          apply_move(p, piece, from_square, to_square, new_piece),
                          piece, last_square)

\* the bitboards one make_move call hands to the bit scans: for every kind of
\* the change map and every square of its set, those of the recomputation on
\* the rewritten board
make_move_scans(p, piece, from_square, to_square, new_piece) ==
    IF ~ (p.colour_to_move = colour(piece) /\ is_legal_move(p, piece, from_square, to_square))
    THEN {}
    ELSE LET a == apply_move(p, piece, from_square, to_square, new_piece)
             changed == change_map(p.piece_map, a.pos.piece_map)
             board == update_position_bitboards(p.board, a.pos.piece_map, changed)
         IN  IF a.raised THEN {}
             ELSE UNION {UNION {update_attack_scans(board, k, s) :
                                  s \in a.pos.piece_map[k]} : k \in changed}

(***************************************************************************)
(* Move.py, Position.py: the MoveResult object a call hands back.  fen is  *)
(* '' on construction and None in every result; both are written as       *)
(* strings here.  The message of an illegal move is printed, not stored.   *)
(***************************************************************************)
MoveResult ==
    [is_checkmate |-> FALSE, is_king_check |-> FALSE, is_stalemate |-> FALSE,
     is_draw_claim_allowed |-> FALSE, is_illegal_move |-> FALSE, fen |-> ""]

make_illegal_move_result(message) ==
    [MoveResult EXCEPT !.is_illegal_move = TRUE, !.fen = "None"]

make_move_result == [MoveResult EXCEPT !.fen = "None"]

make_checkmate_result == [MoveResult EXCEPT !.is_checkmate = TRUE, !.fen = "None"]

\* no object: the call raised, or no call was made yet
NoResult == [fen |-> "none"]

\* the object behind each return statement of make_move
returned(result, message) ==
    CASE result = "illegal" -> make_illegal_move_result(message)
      [] result = "checkmate" -> make_checkmate_result
      [] result = "accepted" -> make_move_result
      [] OTHER -> NoResult

(***************************************************************************)
(* The state machine: one Position, driven by make_move calls.             *)
(***************************************************************************)
\* pos, last and calls belong to the game; probe holds one call of a helper
\* function outside a game: its name, its argument and what it gave; callers
\* holds the make_move calls in progress when calls may overlap
VARIABLES pos, last, calls, probe, callers

vars == << pos, last, calls, probe, callers >>

\* make_move calls per run under Spec
MaxCalls == 3

\* make_move calls per run under SpecOpening
OpeningCalls == 1

NoMove == [result |-> "none", reason |-> "", returned |-> NoResult, piece |-> "None",
           from_square |-> None, to_square |-> None, new_piece |-> "None"]

NoProbe == [fn |-> "none", arg |-> None, out |-> None]

\* no call in progress
NoCallers == [exclusive |-> TRUE, call |-> << >>]

Init ==
    /\ pos = InitialPosition
    /\ last = NoMove
    /\ calls = 0
    /\ callers = NoCallers
    /\ probe = NoProbe

\* the process is alive: no call has raised
Running == last.result # "raised"

RECURSIVE IterationEnds(_, _)
\* every way the sets of the kinds K can each yield a last square
IterationEnds(K, piece_map) ==
    IF K = {} THEN { << >> }
    ELSE LET k == CHOOSE x \in K : TRUE
         IN  {(k :> sq) @@ f : sq \in piece_map[k],
                               f \in IterationEnds(K \ {k}, piece_map)}

\* the moves the caller submits under Spec: <<piece, from_square, to_square>>
GameMoves ==
    { << "wP", 12, 28 >>,    \* e2-e4
      << "wN",  1, 11 >>,    \* Nb1-d2
      << "wB",  5, 33 >>,    \* Bf1-b5
      << "wQ",  3, 11 >>,    \* Qd1-d2
      << "wQ",  3, 51 >>,    \* Qd1-d7
      << "wR",  7, 63 >>,    \* Rh1-h8
      << "wR", 63, 60 >>,    \* Rh8-e8
      << "wK",  4,  6 >>,    \* e1-g1
      << "wK",  4,  2 >>,    \* e1-c1
      << "bP", 48, 40 >>,    \* a7-a6
      << "bP", 51, 43 >>,    \* d7-d6
      << "bN", 57, 42 >>,    \* Nb8-c6
      << "bB", 58,  4 >>,    \* Bc8-e1
      << "bK", 60, 51 >>,    \* Ke8-d7
      << "bK", 60, 62 >>,    \* e8-g8
      << "bK", 60, 58 >> }   \* e8-c8

\* the moves the caller submits under SpecOpening: every piece kind between
\* every two squares
AllMoves == Pieces \X Squares \X Squares

\* the kinds update_attack_bitboards iterates after the statements of lines
\* 178-211 gave a: the changed kinds whose set is not empty
iterated_kinds(p, a) ==
    IF a.raised THEN {}
    ELSE {k \in change_map(p.piece_map, a.pos.piece_map) : a.pos.piece_map[k] # {}}

\* the ways the iteration of line 217 can end for the move
last_squares(p, a) == IterationEnds(iterated_kinds(p, a), a.pos.piece_map)

\* the call passes lines 172-176
passes_validation(p, piece, from_square, to_square) ==
    /\ p.colour_to_move = colour(piece)
    /\ is_legal_move(p, piece, from_square, to_square)

\* one make_move call on a move drawn from moves
MakeMove(moves, max_calls) ==
    /\ Running
    /\ calls < max_calls
    /\ \E m \in moves :
          \E new_piece \in (IF move_is_promotion(m[1], m[3])
                            THEN promotion_kinds(colour(m[1])) ELSE {"None"}) :
             \E last_square \in
                   (IF passes_validation(pos, m[1], m[2], m[3])
                    THEN last_squares(pos, apply_move(pos, m[1], m[2], m[3], new_piece))
                    ELSE { << >> }) :
                \E r \in {make_move(pos, m[1], m[2], m[3], new_piece, last_square)} :
                   /\ pos' = r.pos
                   /\ last' = [result |-> r.result,
                               reason |-> r.reason,
                               returned |-> returned(r.result, r.reason),
                               piece |-> m[1],
                               from_square |-> m[2],
                               to_square |-> m[3],
                               new_piece |-> new_piece]
                   /\ calls' = calls + 1
                   /\ UNCHANGED << probe, callers >>

Next == MakeMove(GameMoves, MaxCalls)

Spec == Init /\ [][Next]_vars

SpecOpening == Init /\ [][MakeMove(AllMoves, OpeningCalls)]_vars

(***************************************************************************)
(* The static tables of Board.__init__, looked up for one square.          *)
(***************************************************************************)
InitTables ==
    /\ pos = InitialPosition
    /\ last = NoMove
    /\ calls = 0
    /\ callers = NoCallers
    /\ probe \in {[fn |-> "none", arg |-> square, out |-> None] : square \in Squares}

\* one look-up of table, named fn, at the square of the probe
Lookup(fn, table) ==
    /\ probe.fn = "none"
    /\ probe' = [fn |-> fn, arg |-> probe.arg, out |-> table[probe.arg]]
    /\ UNCHANGED << pos, last, calls, callers >>

SpecTables ==
    InitTables
       /\ [][\/ Lookup("rook_attacks", rook_attacks)
             \/ Lookup("bishop_attacks", bishop_attacks)
             \/ Lookup("queen_attacks", queen_attacks)
             \/ Lookup("knight_attacks", knight_attacks)
             \/ Lookup("king_attacks", king_attacks)
             \/ Lookup("white_pawn_attack", white_pawn_attack)
             \/ Lookup("white_pawn_move", white_pawn_move)
             \/ Lookup("black_pawn_attack", black_pawn_attack)
             \/ Lookup("black_pawn_move", black_pawn_move)]_vars

(***************************************************************************)
(* make_move called by two callers on one Position.  A call runs in four   *)
(* steps: the snapshot (lines 168-170), validation and the move on         *)
(* piece_map (lines 172-211), the rewrite of the bitboards and attack       *)
(* bitboards (lines 215-219), and the result (lines 221-232).  With         *)
(* callers.exclusive a call starts only when no other is in progress, as    *)
(* when run_game makes one call after the other; without it the steps of    *)
(* the two calls interleave.                                                *)
(***************************************************************************)
\* make_move calls per run under SpecInterleaved
InterleavedCalls == 2

\* Bf1-b5, e2-e4, Ke8-d7
InterleavedMoves == { << "wB", 5, 33 >>, << "wP", 12, 28 >>, << "bK", 60, 51 >> }

Idle == [pc |-> "idle", piece |-> "None", from_square |-> None, to_square |-> None,
         original |-> InitialPosition]

InitInterleaved ==
    /\ pos = InitialPosition
    /\ last = NoMove
    /\ calls = 0
    /\ probe = NoProbe
    /\ callers \in {[exclusive |-> exclusive, call |-> << Idle, Idle >>] :
                       exclusive \in BOOLEAN}

\* what the call of caller t returned
Returns(t, result, reason) ==
    last' = [result |-> result, reason |-> reason,
             returned |-> returned(result, reason),
             piece |-> callers.call[t].piece,
             from_square |-> callers.call[t].from_square,
             to_square |-> callers.call[t].to_square,
             new_piece |-> "None"]

\* lines 168-170: original_position and original_piece_map
Snapshot(t) ==
    /\ Running
    /\ calls < InterleavedCalls
    /\ callers.call[t].pc = "idle"
    /\ callers.exclusive => \A u \in DOMAIN callers.call : callers.call[u].pc = "idle"
    /\ \E m \in InterleavedMoves :
          callers' = [callers EXCEPT !.call[t] =
                         [pc |-> "snapshot", piece |-> m[1], from_square |-> m[2],
                          to_square |-> m[3], original |-> pos]]
    /\ calls' = calls + 1
    /\ UNCHANGED << pos, last, probe >>

\* lines 172-211: the two rejections, or the move applied to piece_map, the
\* clocks, the castling rights and the en-passant target
ValidateAndApply(t) ==
    /\ Running
    /\ callers.call[t].pc = "snapshot"
    /\ \E c \in {callers.call[t]} :
          IF ~ passes_validation(pos, c.piece, c.from_square, c.to_square)
          THEN /\ Returns(t, "illegal",
                          IF pos.colour_to_move # colour(c.piece)
                          THEN "turn" ELSE "invalid")
               /\ callers' = [callers EXCEPT !.call[t] = Idle]
               /\ UNCHANGED pos
          ELSE \E a \in {apply_move(pos, c.piece, c.from_square, c.to_square, "None")} :
                  /\ pos' = a.pos
                  /\ IF a.raised
                     THEN /\ Returns(t, "raised", "piece_map")
                          /\ callers' = [callers EXCEPT !.call[t] = Idle]
                     ELSE /\ callers' = [callers EXCEPT !.call[t].pc = "applied"]
                          /\ UNCHANGED last
    /\ UNCHANGED << calls, probe >>

\* lines 215-219: the change map against the caller's snapshot, the
\* bitboards, the attack bitboards and the king-in-check flags
UpdateBitboards(t) ==
    /\ Running
    /\ callers.call[t].pc = "applied"
    /\ \E changed \in {change_map(callers.call[t].original.piece_map, pos.piece_map)} :
          \E last_square \in IterationEnds({k \in changed : pos.piece_map[k] # {}},
                                           pos.piece_map) :
             pos' = update_after_move(pos, changed, last_square)
    /\ callers' = [callers EXCEPT !.call[t].pc = "updated"]
    /\ UNCHANGED << last, calls, probe >>

\* lines 221-232: the rollback to the caller's snapshot, checkmate, or the
\* flip of the side to move
Finish(t) ==
    /\ Running
    /\ callers.call[t].pc = "updated"
    /\ \E r \in {move_result(callers.call[t].original, pos,
                             colour(callers.call[t].piece))} :
          /\ pos' = r.pos
          /\ Returns(t, r.result, r.reason)
    /\ callers' = [callers EXCEPT !.call[t] = Idle]
    /\ UNCHANGED << calls, probe >>

SpecInterleaved ==
    InitInterleaved
       /\ [][\E t \in {1, 2} :
                Snapshot(t) \/ ValidateAndApply(t) \/ UpdateBitboards(t) \/ Finish(t)]_vars

(***************************************************************************)
(* The bit scans applied to one non-empty bitboard over ScanBits.          *)
(***************************************************************************)
ScanBits == {0, 1, 7, 31, 32, 62, 63}

InitScan ==
    /\ pos = InitialPosition
    /\ last = NoMove
    /\ calls = 0
    /\ callers = NoCallers
    /\ probe \in {[fn |-> "none", arg |-> bitboard, out |-> None] :
                    bitboard \in (SUBSET ScanBits) \ {{}}}

ForwardScan ==
    /\ probe.fn = "none"
    /\ probe' = [fn |-> "forward_bitscan", arg |-> probe.arg,
                 out |-> forward_bitscan(probe.arg)]
    /\ UNCHANGED << pos, last, calls, callers >>

BackwardScan ==
    /\ probe.fn = "none"
    /\ probe' = [fn |-> "backward_bitscan", arg |-> probe.arg,
                 out |-> backward_bitscan(probe.arg)]
    /\ UNCHANGED << pos, last, calls, callers >>

SpecScan ==
    InitScan
       /\ [][ForwardScan \/ BackwardScan]_vars

(***************************************************************************)
(* Board.update_position_bitboards applied once to the initial board, with *)
(* a piece map in which some kinds of UpdateKinds have moved and a change   *)
(* map naming some kinds of UpdateKinds.                                    *)
(***************************************************************************)
UpdateKinds == {"wP", "wN", "bP", "bK"}

\* e2-e4, Ng1-f3, the h7 pawn taken, Ke8-e7
UpdateSquares ==
    [k \in UpdateKinds |->
        CASE k = "wP" -> (8..15 \ {12}) \cup {28}
          [] k = "wN" -> {1, 21}
          [] k = "bP" -> 48..54
          [] k = "bK" -> {52}]

InitUpdate ==
    /\ pos = InitialPosition
    /\ last = NoMove
    /\ calls = 0
    /\ callers = NoCallers
    /\ probe \in {[fn |-> "none",
                    arg |-> [board |-> InitialPosition.board,
                             piece_map |-> [k \in Pieces |->
                                              IF k \in moved THEN UpdateSquares[k]
                                              ELSE set_initial_piece_locations[k]],
                             change_map |-> changed],
                    out |-> None] :
                       moved \in SUBSET UpdateKinds,
                       changed \in SUBSET UpdateKinds}

UpdatePositionBitboards ==
    /\ probe.fn = "none"
    /\ probe' = [fn |-> "update_position_bitboards", arg |-> probe.arg,
                 out |-> update_position_bitboards(probe.arg.board,
                                                   probe.arg.piece_map,
                                                   probe.arg.change_map)]
    /\ UNCHANGED << pos, last, calls, callers >>

SpecUpdate == InitUpdate /\ [][UpdatePositionBitboards]_vars

(***************************************************************************)
(* update_legal_rook_moves and update_legal_bishop_moves applied once to   *)
(* one slider: the king-side rook or bishop of either colour, standing at  *)
(* home or put on an empty square of the initial board.                    *)
(***************************************************************************)
InitRays ==
    /\ pos = InitialPosition
    /\ last = NoMove
    /\ calls = 0
    /\ callers = NoCallers
    /\ probe \in {[fn |-> "none",
                    arg |-> [kind |-> kind,
                             from_square |-> from_square,
                             board |-> [InitialPosition.board EXCEPT
                                          ![kind] = (@ \ {Max(@)}) \cup {from_square}]],
                    out |-> None] :
                       kind \in {"wR", "bR", "wB", "bB"},
                       from_square \in empty_squares(InitialPosition.board)
                                         \cup {Square.H1, Square.H8, Square.F1, Square.F8}}
    /\ probe.arg.from_square \notin
          occupied_squares(InitialPosition.board)
             \ {Max(InitialPosition.board[probe.arg.kind])}

UpdateLegalRookMoves ==
    /\ probe.fn = "none"
    /\ probe.arg.kind \in {"wR", "bR"}
    /\ probe' = [fn |-> "update_legal_rook_moves", arg |-> probe.arg,
                 out |-> rook_legal_moves(probe.arg.board, probe.arg.from_square,
                                          colour(probe.arg.kind))]
    /\ UNCHANGED << pos, last, calls, callers >>

UpdateLegalBishopMoves ==
    /\ probe.fn = "none"
    /\ probe.arg.kind \in {"wB", "bB"}
    /\ probe' = [fn |-> "update_legal_bishop_moves", arg |-> probe.arg,
                 out |-> bishop_legal_moves(probe.arg.board, probe.arg.from_square,
                                            colour(probe.arg.kind))]
    /\ UNCHANGED << pos, last, calls, callers >>

SpecRays == InitRays /\ [][UpdateLegalRookMoves \/ UpdateLegalBishopMoves]_vars

\* make_move calls per run under SpecAttack
AttackCalls == 4

\* the moves the caller submits under SpecAttack: white brings queen, rook
\* and bishop to bear on e8, black answers with king or pawn
AttackMoves ==
    { << "wQ",  3, 11 >>,    \* Qd1-d2
      << "wR",  7, 63 >>,    \* Rh1-h8
      << "wB",  5, 26 >>,    \* Bf1-c4
      << "wB", 26, 53 >>,    \* Bc4-f7
      << "wP", 12, 28 >>,    \* e2-e4
      << "bK", 60, 53 >>,    \* Ke8-f7
      << "bK", 60, 51 >>,    \* Ke8-d7
      << "bP", 48, 40 >> }   \* a7-a6

SpecAttack == Init /\ [][MakeMove(AttackMoves, AttackCalls)]_vars

\* make_move calls per run under SpecCastle
CastleCalls == 5

\* the moves the caller submits under SpecCastle: white clears f1 and g1,
\* moves its king two squares or its f-pawn two squares, black pushes its
\* a-pawn or steps with its king
CastleMoves ==
    { << "wN",  6, 21 >>,    \* Ng1-f3
      << "wP", 13, 29 >>,    \* f2-f4
      << "wB",  5, 26 >>,    \* Bf1-c4
      << "wK",  4,  6 >>,    \* e1-g1
      << "wK",  4,  5 >>,    \* Ke1-f1
      << "wR",  7,  5 >>,    \* Rh1-f1
      << "bP", 48, 40 >>,    \* a7-a6
      << "bP", 40, 32 >>,    \* a6-a5
      << "bK", 60, 52 >> }   \* Ke8-e7

SpecCastle == Init /\ [][MakeMove(CastleMoves, CastleCalls)]_vars

\* make_move calls per run under SpecPawn
PawnCalls == 5

\* the moves the caller submits under SpecPawn: the white a-pawn walks to the
\* fifth rank and takes on b6, black answers with a pawn or a knight
PawnMoves ==
    { << "wP",  8, 24 >>,    \* a2-a4
      << "wP", 24, 32 >>,    \* a4-a5
      << "wP", 32, 41 >>,    \* a5-b6
      << "wN",  6, 21 >>,    \* Ng1-f3
      << "bP", 55, 47 >>,    \* h7-h6
      << "bP", 49, 33 >>,    \* b7-b5
      << "bN", 62, 45 >> }   \* Ng8-f6

SpecPawn == Init /\ [][MakeMove(PawnMoves, PawnCalls)]_vars

\* make_move calls per run under SpecPromotion
PromotionCalls == 9

\* the moves the caller submits under SpecPromotion: the white a-pawn walks
\* to the seventh rank and takes on a8 or c8, black pushes its h-pawn
PromotionMoves ==
    { << "wP",  8, 24 >>,    \* a2-a4
      << "wP", 24, 32 >>,    \* a4-a5
      << "wP", 32, 40 >>,    \* a5-a6
      << "wP", 40, 49 >>,    \* a6-b7
      << "wP", 49, 56 >>,    \* b7-a8
      << "wP", 49, 58 >>,    \* b7-c8
      << "bP", 55, 47 >>,    \* h7-h6
      << "bP", 47, 39 >>,    \* h6-h5
      << "bP", 39, 31 >>,    \* h5-h4
      << "bP", 31, 23 >> }   \* h4-h3

SpecPromotion == Init /\ [][MakeMove(PromotionMoves, PromotionCalls)]_vars

(***************************************************************************)
(* Chess attacks under an occupancy, for the properties that speak of a    *)
(* king that is attacked: sliders along rays cut at the first blocker,     *)
(* leapers by their offsets, pawns by their capture diagonals.             *)
(***************************************************************************)
FileOf(s) == s % 8

RankOf(s) == s \div 8

\* the squares a slider on s reaches in direction <<df, dr>>
ChessRay(occupied, s, df, dr) ==
    {t \in Squares :
        \E k \in 1..7 :
           /\ FileOf(t) = FileOf(s) + k * df
           /\ RankOf(t) = RankOf(s) + k * dr
           /\ \A j \in 1..(k - 1) : (s + j * (8 * dr + df)) \notin occupied}

\* the squares a leaper on s reaches by the offsets
ChessLeap(s, offsets) ==
    {t \in Squares : << FileOf(t) - FileOf(s), RankOf(t) - RankOf(s) >> \in offsets}

Straight == {<< 1, 0 >>, << -1, 0 >>, << 0, 1 >>, << 0, -1 >>}

Diagonal == {<< 1, 1 >>, << 1, -1 >>, << -1, 1 >>, << -1, -1 >>}

KnightJumps == {<< 1, 2 >>, << 2, 1 >>, << 2, -1 >>, << 1, -2 >>,
                << -1, -2 >>, << -2, -1 >>, << -2, 1 >>, << -1, 2 >>}

ChessAttacks(occupied, kind, s) ==
    CASE kind \in {"wR", "bR"} ->
           UNION {ChessRay(occupied, s, d[1], d[2]) : d \in Straight}
      [] kind \in {"wB", "bB"} ->
           UNION {ChessRay(occupied, s, d[1], d[2]) : d \in Diagonal}
      [] kind \in {"wQ", "bQ"} ->
           UNION {ChessRay(occupied, s, d[1], d[2]) : d \in Straight \cup Diagonal}
      [] kind \in {"wN", "bN"} -> ChessLeap(s, KnightJumps)
      [] kind \in {"wK", "bK"} -> ChessLeap(s, Straight \cup Diagonal)
      [] kind = "wP" -> ChessLeap(s, {<< 1, 1 >>, << -1, 1 >>})
      [] kind = "bP" -> ChessLeap(s, {<< 1, -1 >>, << -1, -1 >>})

\* the squares the pieces of colour c attack on the board
AttackedBy(board, c) ==
    UNION {UNION {ChessAttacks(occupied_squares(board), k, s) : s \in board[k]} :
             k \in {x \in Pieces : colour(x) = c}}

King(c) == IF c = WHITE THEN "wK" ELSE "bK"

Rook(c) == IF c = WHITE THEN "wR" ELSE "bR"

\* the king of colour c stands on a square the other colour attacks
KingAttacked(board, c) == board[King(c)] \cap AttackedBy(board, Not(c)) # {}

(***************************************************************************)
(* Properties.                                                             *)
(***************************************************************************)

\* C1: a move rejected because the mover's own king is in check after it
\* leaves piece_map and the 12 Board bitboards as they were before the call.
C1_SelfCheckRestoresPieces ==
    [][last'.reason = "selfcheck" =>
          /\ pos'.piece_map = pos.piece_map
          /\ pos'.board = pos.board]_vars

\* a self-check rejection has happened, and the rejected piece is still on
\* its from-square
C1_Witness ==
    /\ last.reason = "selfcheck"
    /\ last.from_square \in pos.piece_map[last.piece]
    /\ last.from_square \in pos.board[last.piece]

\* C2: a move rejected for self-check leaves every field of the position,
\* the dynamic attack bitboards included, as it was before the call.
C2_SelfCheckRestoresAll ==
    [][last'.reason = "selfcheck" => pos' = pos]_vars

\* C3: a move after which the mover's king stands on a square an opposing
\* piece attacks under the resulting occupancy is never accepted and never
\* answered with checkmate.
C3_NoMoveIntoCheck ==
    last.result \in {"accepted", "checkmate"} =>
        ~ KingAttacked(pos.board, colour(last.piece))

\* C4: between make_move calls, after accepted, rejected and checkmate
\* outcomes, each kind's piece_map square set equals the bits of its bitboard.
C4_PieceMapMatchesBoard ==
    Running => \A k \in Pieces : pos.piece_map[k] = pos.board[k]

\* a capture has been accepted: two kinds were rewritten
C4_Witness ==
    /\ last.result = "accepted"
    /\ last.to_square \in pos.board[last.piece]
    /\ last.from_square \notin pos.board[last.piece]
    /\ \E k \in Pieces : Cardinality(pos.board[k])
                           < Cardinality(set_initial_piece_locations[k])

\* C5: no square is claimed by two piece kinds.
C5_KindsDisjoint ==
    \A k1, k2 \in Pieces : k1 # k2 => pos.board[k1] \cap pos.board[k2] = {}

\* C6: each colour has exactly one king.
C6_OneKingEach ==
    /\ Cardinality(pos.board["wK"]) = 1
    /\ Cardinality(pos.board["bK"]) = 1

\* C7: a move of the colour that is not to move is rejected; an accepted
\* move is of the colour to move and hands the move to the other colour; a
\* rejected move leaves the colour to move as it was.
C7_TurnsAlternate ==
    [][/\ colour(last'.piece) # pos.colour_to_move => last'.result = "illegal"
       /\ last'.result = "accepted" =>
             /\ colour(last'.piece) = pos.colour_to_move
             /\ pos'.colour_to_move = Not(pos.colour_to_move)
       /\ last'.result = "illegal" =>
             pos'.colour_to_move = pos.colour_to_move]_vars

\* white and black have each had a move accepted, and white is to move again
C7_Witness ==
    /\ last.result = "accepted"
    /\ colour(last.piece) = BLACK
    /\ pos.halfmove = 4
    /\ pos.colour_to_move = WHITE

\* C8: a move rejected during validation (wrong turn, piece not on the
\* from-square, illegal geometry) changes no field of the position.
C8_ValidationRejectionChangesNothing ==
    [][last'.reason \in {"turn", "invalid"} => pos' = pos]_vars

\* a two-square pawn advance from the home rank has been rejected during
\* validation
C8_Witness ==
    /\ last.reason = "invalid"
    /\ get_en_passant_target(last.piece, last.from_square, last.to_square) # None
    /\ pos.en_passant_target = None

\* the moves of the side to move in p, each from a square of its kind, that
\* pass the validation of make_move
ValidatedMoves(p) ==
    UNION { UNION { { << k, f, t >> : t \in {x \in Squares : passes_validation(p, k, f, x)} }
                    : f \in p.board[k] }
            : k \in {x \in Pieces : colour(x) = p.colour_to_move} }

\* make_move rejects every validated move of the side to move in p because it
\* leaves that side's king attacked
EveryMoveLeavesKingAttacked(p) ==
    \A m \in ValidatedMoves(p) :
       \A last_square \in last_squares(p, apply_move(p, m[1], m[2], m[3], "None")) :
          make_move(p, m[1], m[2], m[3], "None", last_square).reason = "selfcheck"

\* C9: a call that leaves the king of the side now to move attacked, while
\* every move of that side that passes validation would be rejected for leaving
\* its king attacked, returns checkmate; so after a plain acceptance with that
\* king attacked (on the board and in king_in_check) the side to move has a move
\* that make_move does not reject for self-check.
C9_AttackedWithoutMoveIsCheckmate ==
    (/\ last.result = "accepted"
     /\ pos.king_in_check[pos.colour_to_move] = 1
     /\ KingAttacked(pos.board, pos.colour_to_move))
       => ~EveryMoveLeavesKingAttacked(pos)

\* the conditions of castling with the king going to to_square, in position p
CastlingConditions(p, c, to_square) ==
    LET side == IF to_square \in {Square.G1, Square.G8} THEN 1 ELSE 2
        king_square == IF c = WHITE THEN Square.E1 ELSE Square.E8
        between == CASE to_square = Square.G1 -> {Square.F1, Square.G1}
                     [] to_square = Square.C1 -> {Square.D1, Square.C1}
                     [] to_square = Square.G8 -> {Square.F8, Square.G8}
                     [] to_square = Square.C8 -> {Square.D8, Square.C8}
    IN  /\ p.castle_rights[c][side] # 0
        /\ between \cap occupied_squares(p.board) = {}
        /\ rook_home(to_square) \in p.board[Rook(c)]
        /\ ({king_square} \cup between) \cap AttackedBy(p.board, Not(c)) = {}

\* C10: a king move from e1 to g1 or c1 (e8 to g8 or c8) is accepted only
\* under the conditions of castling, and then leaves the king on its
\* destination and the rook beside it; a rejected attempt leaves king and rook
\* where they were.
C10_Castling ==
    [][move_is_castling(last'.piece, last'.from_square, last'.to_square) =>
          /\ last'.result \in {"accepted", "checkmate"} =>
                /\ CastlingConditions(pos, colour(last'.piece), last'.to_square)
                /\ last'.to_square \in pos'.board[last'.piece]
                /\ rook_castled(last'.to_square)
                      \in pos'.board[Rook(colour(last'.piece))]
                /\ rook_home(last'.to_square)
                      \notin pos'.board[Rook(colour(last'.piece))]
          /\ last'.result = "illegal" =>
                /\ pos'.board[last'.piece] = pos.board[last'.piece]
                /\ pos'.board[Rook(colour(last'.piece))]
                      = pos.board[Rook(colour(last'.piece))]]_vars

\* the side to move has tried to castle with its king on its home square and
\* was refused
C10_Witness ==
    /\ last.result = "illegal"
    /\ move_is_castling(last.piece, last.from_square, last.to_square)
    /\ colour(last.piece) = pos.colour_to_move
    /\ last.from_square \in pos.board[last.piece]

\* C11: when the side to move has its king on its home square and the
\* conditions of castling hold for a wing (the right is held, the rook is in
\* its corner, the squares between are empty and no square the king crosses
\* is attacked), make_move accepts the king's two-square move to that wing.
C11_CastlingAvailable ==
    [][(/\ move_is_castling(last'.piece, last'.from_square, last'.to_square)
        /\ last'.piece = King(pos.colour_to_move)
        /\ last'.from_square \in pos.board[last'.piece]
        /\ last'.from_square \in pos.piece_map[last'.piece]
        /\ CastlingConditions(pos, pos.colour_to_move, last'.to_square))
          => last'.result \in {"accepted", "checkmate"}]_vars

\* the home corner of the rook of wing side (1 kingside, 2 queenside) of
\* colour c
RookCorner(c, side) ==
    IF c = WHITE THEN (IF side = 1 THEN Square.H1 ELSE Square.A1)
    ELSE (IF side = 1 THEN Square.H8 ELSE Square.A8)

\* C12: a castling right that is false stays false; an accepted king move
\* makes both rights of its colour false, and an accepted rook move out of a
\* home corner makes the right of that wing false, for white and for black.
C12_CastlingRightsRevoked ==
    [][\A c \in Colours : \A side \in {1, 2} :
          /\ pos.castle_rights[c][side] = 0 => pos'.castle_rights[c][side] = 0
          /\ (/\ last'.result \in {"accepted", "checkmate"}
              /\ \/ last'.piece = King(c)
                 \/ last'.piece = Rook(c) /\ last'.from_square = RookCorner(c, side))
                => pos'.castle_rights[c][side] = 0]_vars

\* the move of the call is a pawn's advance from its home rank to the fourth
\* rank of its colour
TwoSquareAdvance(l) ==
    get_en_passant_target(l.piece, l.from_square, l.to_square) # None

Pawn(c) == IF c = WHITE THEN "wP" ELSE "bP"

\* the call moves a pawn one rank forward and one file sideways onto the
\* en-passant target that the other side's two-square advance left in p
EnPassantMove(p, l) ==
    /\ l.piece \in {"wP", "bP"}
    /\ l.from_square \in p.piece_map[l.piece]
    /\ p.en_passant_target # None
    /\ p.en_passant_side # colour(l.piece)
    /\ l.to_square = p.en_passant_target
    /\ RankOf(l.to_square) - RankOf(l.from_square)
          = (IF colour(l.piece) = WHITE THEN 1 ELSE -1)
    /\ FileOf(l.to_square) - FileOf(l.from_square) \in {-1, 1}

\* the square of the pawn an en-passant move to to_square takes
BehindSquare(piece, to_square) ==
    IF colour(piece) = WHITE THEN to_square - 8 ELSE to_square + 8

C15_SlidersStopAtBlockers ==
    [][(/\ last'.result \in {"accepted", "checkmate"}
        /\ last'.piece \in {"wR", "bR", "wB", "bB", "wQ", "bQ"}) =>
          /\ last'.to_square \in ChessAttacks(occupied_squares(pos.board),
                                              last'.piece, last'.from_square)
          /\ last'.to_square
                \notin occupied_squares_by_colour(pos.board, colour(last'.piece))]_vars

\* the ranks the pawn of the call advances, counted in its own direction
RanksForward(l) ==
    IF colour(l.piece) = WHITE THEN RankOf(l.to_square) - RankOf(l.from_square)
    ELSE RankOf(l.from_square) - RankOf(l.to_square)

\* C16: an accepted pawn move straight up its file goes to an empty square;
\* if it covers two ranks it starts on the pawn's home rank and the square
\* it passes over is empty as well.
C16_ForwardPawnMoves ==
    [][(/\ last'.result \in {"accepted", "checkmate"}
        /\ last'.piece \in {"wP", "bP"}
        /\ FileOf(last'.to_square) = FileOf(last'.from_square)) =>
          /\ RanksForward(last') \in {1, 2}
          /\ last'.to_square \notin occupied_squares(pos.board)
          /\ RanksForward(last') = 2 =>
                /\ last'.from_square
                      \in (IF colour(last'.piece) = WHITE THEN Rank.x2 ELSE Rank.x7)
                /\ BehindSquare(last'.piece, last'.to_square)
                      \notin occupied_squares(pos.board)]_vars

\* the call moves a pawn one rank forward and one file sideways
DiagonalPawnMove(l) ==
    /\ l.piece \in {"wP", "bP"}
    /\ RanksForward(l) = 1
    /\ FileOf(l.to_square) - FileOf(l.from_square) \in {-1, 1}

\* C17: an accepted diagonal pawn move goes to a square that holds a piece of
\* the other colour or is the en-passant target left by the other side.
C17_DiagonalPawnMoves ==
    [][(last'.result \in {"accepted", "checkmate"} /\ DiagonalPawnMove(last')) =>
          \/ last'.to_square
                \in occupied_squares_by_colour(pos.board, Not(colour(last'.piece)))
          \/ /\ pos.en_passant_target # None
             /\ pos.en_passant_side # colour(last'.piece)
             /\ last'.to_square = pos.en_passant_target]_vars

\* the accepted call took a piece: one stood on its destination, or it was an
\* en-passant move
IsCapture(p, l) ==
    \/ l.to_square \in occupied_squares_by_colour(p.board, Not(colour(l.piece)))
    \/ EnPassantMove(p, l)

\* C18: after an accepted move the halfmove clock is 0 if the move took a
\* piece or moved a pawn, and one more than before otherwise.
C18_HalfmoveClock ==
    [][last'.result \in {"accepted", "checkmate"} =>
          pos'.halfmove_clock =
             (IF IsCapture(pos, last') \/ last'.piece \in {"wP", "bP"}
              THEN 0 ELSE pos.halfmove_clock + 1)]_vars

\* C19: the halfmove counter grows by one with every accepted or checkmate
\* result and stays as it is with every rejected call, so it never decreases.
C19_HalfmoveCounter ==
    [][/\ last'.result \in {"accepted", "checkmate"} =>
             pos'.halfmove = pos.halfmove + 1
       /\ last'.result = "illegal" => pos'.halfmove = pos.halfmove
       /\ pos'.halfmove >= pos.halfmove]_vars

\* an accepted move has been followed by a move that was applied and then
\* rejected for self-check
C19_Witness ==
    /\ last.reason = "selfcheck"
    /\ calls = 2
    /\ pos.halfmove = InitialPosition.halfmove + 1

\* C20: after an accepted pawn move onto the last rank the destination is in
\* the square set and in the bitboard of the kind the promotion collaborator
\* returned, a knight, bishop, rook or queen of the mover's colour, and
\* neither the from-square nor the destination is in the mover's pawn set or
\* pawn bitboard.
C20_Promotion ==
    [][(/\ last'.result \in {"accepted", "checkmate"}
        /\ last'.piece \in {"wP", "bP"}
        /\ last'.to_square
              \in (IF colour(last'.piece) = WHITE THEN Rank.x8 ELSE Rank.x1)) =>
          /\ last'.new_piece \in promotion_kinds(colour(last'.piece))
          /\ last'.to_square \in pos'.piece_map[last'.new_piece]
          /\ last'.to_square \in pos'.board[last'.new_piece]
          /\ {last'.from_square, last'.to_square}
                \cap (pos'.piece_map[last'.piece] \cup pos'.board[last'.piece]) = {}]_vars

\* the white pawn that came from a2 has taken on a8 and stands there as the
\* kind the collaborator chose
C20_Witness ==
    /\ last.result = "accepted"
    /\ last.piece = "wP"
    /\ last.from_square = 49
    /\ last.to_square = 56
    /\ 56 \in pos.board[last.new_piece]
    /\ 56 \notin pos.board["bR"]

\* the first call of the run asked for e2-e4
OpenedWithE4 ==
    /\ calls = 1
    /\ last.piece = "wP"
    /\ last.from_square = 12
    /\ last.to_square = 28

\* C21: e2-e4 from the initial position is accepted; afterwards the white
\* pawns hold 28 and not 12 and are otherwise where they were, no other set
\* changed (nothing was taken en passant), it is black's turn, the only
\* en-passant target is the one white left for black, and white's king is
\* not flagged and not attacked.
C21_OpeningE4 ==
    OpenedWithE4 =>
       /\ last.result = "accepted"
       /\ pos.piece_map =
             [InitialPosition.piece_map EXCEPT !["wP"] = (@ \ {12}) \cup {28}]
       /\ pos.board = pos.piece_map
       /\ pos.colour_to_move = BLACK
       /\ pos.is_en_passant_capture = FALSE
       /\ pos.en_passant_target # None => pos.en_passant_side = WHITE
       /\ pos.king_in_check[WHITE] = 0
       /\ ~ KingAttacked(pos.board, WHITE)

\* e2-e4 has been played as the first move and left its target on e3
C21_Witness ==
    /\ OpenedWithE4
    /\ last.result = "accepted"
    /\ pos.en_passant_target = 20

C23_StaticSliderTables ==
    /\ probe.fn = "rook_attacks" => probe.out = ChessAttacks({}, "wR", probe.arg)
    /\ probe.fn = "bishop_attacks" => probe.out = ChessAttacks({}, "wB", probe.arg)
\* the corners, and the squares on the rim of the board
Corners == {Square.A1, Square.H1, Square.A8, Square.H8}

Rim == File.hexA \cup File.hexH \cup Rank.x1 \cup Rank.x8

\* C24: on every square the static king table holds 3 squares for a corner,
\* 5 for another rim square and 8 for an interior square, all of them one
\* king step from the square, and never the square itself.
C24_StaticKingTable ==
    probe.fn = "king_attacks" =>
       /\ Cardinality(probe.out) =
             (IF probe.arg \in Corners THEN 3
              ELSE IF probe.arg \in Rim THEN 5 ELSE 8)
       /\ probe.out = ChessLeap(probe.arg, Straight \cup Diagonal)
       /\ probe.arg \notin probe.out

\* the king table has been looked up for h4, on the rim, whose numeric
\* neighbours 32 and 16 lie on the a-file
C24_Witness ==
    /\ probe.fn = "king_attacks"
    /\ probe.arg = 31
    /\ probe.out = {22, 23, 30, 38, 39}

\* C25: on every square the static knight table holds exactly the squares of
\* the board a knight step away.
C25_StaticKnightTable ==
    probe.fn = "knight_attacks" =>
       probe.out = ChessLeap(probe.arg, KnightJumps)

\* the knight table has been looked up for a1, from where four numeric
\* offsets stay on the board and two of them land on files G and H
C25_Witness ==
    /\ probe.fn = "knight_attacks"
    /\ probe.arg = 0
    /\ probe.out = {10, 17}
\* the squares a pawn can stand on
PawnSquares == Squares \ (Rank.x1 \cup Rank.x8)

\* C26: on every square a pawn can stand on, the static capture table of
\* each colour holds exactly the forward-diagonal neighbours of the square
\* on the board.
C26_StaticPawnCaptureTables ==
    probe.arg \in PawnSquares =>
       /\ probe.fn = "white_pawn_attack" => probe.out = ChessAttacks({}, "wP", probe.arg)
       /\ probe.fn = "black_pawn_attack" => probe.out = ChessAttacks({}, "bP", probe.arg)
MostSignificantBit(bitboard) ==
    CHOOSE s \in bitboard : \A t \in bitboard : t <= s

\* C27: backward_bitscan returns the index of the most significant set bit
\* of every non-zero 64-bit bitboard, those with bit 63 set included.
C27_BackwardBitscan ==
    probe.fn = "backward_bitscan" => probe.out = MostSignificantBit(probe.arg)
\* the rule violations make_move rejects a move for
Violations == {"turn", "invalid", "selfcheck"}

\* C28: the result of a rejected move carries the kind of rule violation:
\* it differs from the result a rejection for any other violation yields.
C28_IllegalResultCarriesReason ==
    last.result = "illegal" =>
       \A violation \in Violations \ {last.reason} :
          last.returned # make_illegal_move_result(violation)
\* C29: update_position_bitboards sets the bitboard of each kind in the
\* change map to exactly the squares given for it and leaves the bitboard of
\* every other kind as it was.  The static attack tables are definitions of
\* the module, outside the board the function rewrites.
C29_UpdatePositionBitboardsFrame ==
    probe.fn = "update_position_bitboards" =>
       \A k \in Pieces :
          /\ k \in probe.arg.change_map => probe.out[k] = probe.arg.piece_map[k]
          /\ k \notin probe.arg.change_map => probe.out[k] = probe.arg.board[k]

\* the pawns are in the change map and rewritten; the knight has moved in
\* the piece map but is not in the change map, and its bitboard stays
C29_Witness ==
    /\ probe.fn = "update_position_bitboards"
    /\ probe.arg.change_map = {"wP", "bP"}
    /\ probe.arg.piece_map["wN"] = {1, 21}
    /\ probe.out["wP"] = (8..15 \ {12}) \cup {28}
    /\ probe.out["bP"] = 48..54
    /\ probe.out["wN"] = {1, 6}
\* C30: whenever make_move returns a result other than a rejection,
\* checkmate included, the side to move is the opponent of the mover; so a
\* further move of the mating colour does not pass the turn check.
C30_CommitPrecedesTerminalCheck ==
    [][/\ last'.result \in {"accepted", "checkmate"} =>
             pos'.colour_to_move = Not(colour(last'.piece))
       /\ (last.result = "checkmate" /\ colour(last'.piece) = colour(last.piece)) =>
             (last'.result = "illegal" /\ last'.reason = "turn")]_vars

\* C31: make_move returns checkmate only if, in the position it leaves, the
\* king of the mover's opponent is attacked by a piece of the mover on the
\* board and every move of the opponent would be rejected for leaving that
\* king attacked.
C31_CheckmateOnlyWhenMated ==
    last.result = "checkmate" =>
       /\ KingAttacked(pos.board, Not(colour(last.piece)))
       /\ EveryMoveLeavesKingAttacked(
             [pos EXCEPT !.colour_to_move = Not(colour(last.piece))])

\* the dynamic attack bitboard of a piece kind in position p
DynamicAttacks(p, kind) ==
    CASE kind = "wP" -> p.white_pawn_attacks
      [] kind = "wR" -> p.white_rook_attacks
      [] kind = "wN" -> p.white_knight_attacks
      [] kind = "wB" -> p.white_bishop_attacks
      [] kind = "wQ" -> p.white_queen_attacks
      [] kind = "wK" -> p.white_king_attacks
      [] kind = "bP" -> p.black_pawn_attacks
      [] kind = "bR" -> p.black_rook_attacks
      [] kind = "bN" -> p.black_knight_attacks
      [] kind = "bB" -> p.black_bishop_attacks
      [] kind = "bQ" -> p.black_queen_attacks
      [] kind = "bK" -> p.black_king_attacks

\* the squares the pieces of one kind attack on the board, those holding a
\* piece of the kind's own colour left out
KindAttacks(board, kind) ==
    UNION {ChessAttacks(occupied_squares(board), kind, s) : s \in board[kind]}
       \ occupied_squares_by_colour(board, colour(kind))

\* C32: after an accepted move, the dynamic attack bitboard of every kind
\* whose square set changed is the union, over all pieces of that kind on the
\* board, of the squares the piece attacks under the occupancy.
C32_DynamicAttacksCoverEveryPiece ==
    [][last'.result = "accepted" =>
          \A k \in Pieces :
             pos'.piece_map[k] # pos.piece_map[k] =>
                DynamicAttacks(pos', k) = KindAttacks(pos'.board, k)]_vars

\* C33: the attack set recomputed for one rook or bishop holds, in each of its
\* four directions, exactly the squares from the piece up to the first
\* occupied square, that square included unless it holds a piece of the same
\* colour, and nothing beyond it; so a rook's squares all lie on its rank or
\* file.
C33_SliderRaysStopAtFirstBlocker ==
    probe.fn \in {"update_legal_rook_moves", "update_legal_bishop_moves"} =>
       probe.out = ChessAttacks(occupied_squares(probe.arg.board),
                                probe.arg.kind, probe.arg.from_square)
                      \ occupied_squares_by_colour(probe.arg.board,
                                                   colour(probe.arg.kind))

\* C34: after an accepted king move the mover's dynamic king attack bitboard
\* is the static king table entry of the king's new square without the
\* squares the mover's own pieces occupy.
C34_KingAttacksAfterKingMove ==
    [][(last'.result = "accepted" /\ last'.piece \in {"wK", "bK"}) =>
          DynamicAttacks(pos', last'.piece) =
             king_attacks[last'.to_square]
                \ occupied_squares_by_colour(pos'.board, colour(last'.piece))]_vars

\* C35: an accepted move changes the dynamic attack bitboards of the kinds in
\* its change map only: every kind whose square set stays the same keeps the
\* dynamic attack bitboard it had before the move.
C35_RecomputationTouchesChangedKindsOnly ==
    [][last'.result = "accepted" =>
          \A k \in Pieces :
             pos'.piece_map[k] = pos.piece_map[k] =>
                DynamicAttacks(pos', k) = DynamicAttacks(pos, k)]_vars

\* C36: a piece kind with no piece left on the board has dynamic attack
\* bitboard 0.
C36_NoAttacksFromCapturedKind ==
    Running =>
       \A k \in Pieces : pos.piece_map[k] = {} => DynamicAttacks(pos, k) = {}

RECURSIVE MaterialFrom(_, _, _)
MaterialFrom(piece_map, c, i) ==
    IF i > 12 THEN 0
    ELSE (IF colour(PieceOrder[i]) = c THEN Cardinality(piece_map[PieceOrder[i]])
          ELSE 0) + MaterialFrom(piece_map, c, i + 1)

\* the number of pieces of colour c: the sizes of its kinds' square sets
Material(piece_map, c) == MaterialFrom(piece_map, c, 1)

\* C37: an accepted move that neither takes a piece nor promotes leaves the
\* size of every kind's square set unchanged; an accepted move that takes a
\* piece removes exactly one piece of the opponent and none of the mover; the
\* number of pieces on the board never grows.
C37_MaterialAccounting ==
    [][last'.result = "accepted" =>
          /\ (/\ ~ IsCapture(pos, last')
              /\ ~ move_is_promotion(last'.piece, last'.to_square)) =>
                \A k \in Pieces :
                   Cardinality(pos'.piece_map[k]) = Cardinality(pos.piece_map[k])
          /\ IsCapture(pos, last') =>
                /\ Material(pos'.piece_map, Not(colour(last'.piece)))
                     = Material(pos.piece_map, Not(colour(last'.piece))) - 1
                /\ Material(pos'.piece_map, colour(last'.piece))
                     = Material(pos.piece_map, colour(last'.piece))
          /\ Material(pos'.piece_map, WHITE) + Material(pos'.piece_map, BLACK)
               <= Material(pos.piece_map, WHITE) + Material(pos.piece_map, BLACK)]_vars

\* C38: no make_move call hands an empty bitboard to forward_bitscan or
\* backward_bitscan while it recomputes the attacks.
C38_NoScanOfEmptyBitboard ==
    [][{} \notin make_move_scans(pos, last'.piece, last'.from_square,
                                 last'.to_square, last'.new_piece)]_vars

\* a rook move has been accepted and its recomputation scanned a blocked ray
C38_Witness ==
    /\ last.result = "accepted"
    /\ last.piece = "wR"
    /\ update_attack_scans(pos.board, "wR", last.to_square) # {}

\* no make_move call is in progress
Quiescent == \A t \in DOMAIN callers.call : callers.call[t].pc = "idle"

\* C39: when every make_move call runs alone, from its snapshot to its
\* result, piece_map and the bitboards denote the same occupancy whenever no
\* call is in progress; when the steps of two calls interleave, a state
\* between calls in which they differ is reached.
C39_ExclusiveCallsKeepBoardInStep ==
    (callers.exclusive /\ Quiescent /\ Running) =>
       \A k \in Pieces : pos.piece_map[k] = pos.board[k]

\* two interleaved calls have returned, the second rolled back to a snapshot
\* taken in the middle of the first, and the bishop that went to b5 in
\* piece_map stands on f1 in the bitboards
C39_Witness ==
    /\ ~ callers.exclusive
    /\ Quiescent
    /\ calls = InterleavedCalls
    /\ Running
    /\ last.reason = "selfcheck"
    /\ pos.piece_map["wB"] = {2, 33}
    /\ pos.board["wB"] = {2, 5}

=============================================================================
